---- MODULE Spec2Model ----
(***************************************************************************)
(* A model of zarr's chunked array engine (src/zarr/array.py) and of the   *)
(* abstract store lifecycle (src/src/zarr/abc/store.py).                    *)
(*                                                                         *)
(* An n-dimensional array is a record [shape, flat]: flat holds the        *)
(* elements in C (row-major) order, as numpy lays out a C-contiguous       *)
(* buffer.  Indices are 0-based as in the source; positions in flat are    *)
(* 1-based.  A selection is a tuple of <<start, stop>> pairs, one per axis. *)
(***************************************************************************)
EXTENDS Integers, Sequences, FiniteSets, TLC

VARIABLES
    meta_shape,   \* store.meta['shape']
    _shape,       \* Array._shape, the shape cached by the Array object
    _chunks,      \* Array._chunks
    _fill_value,  \* Array._fill_value (None when the array has none)
    store_data,   \* store.data: chunk key -> compressed chunk
    last,         \* the last array operation: its arguments and its outcome
    hist,         \* history: the operations of a scenario run, in order
    _is_open,     \* Store._is_open
    _mode,        \* Store._mode
    store_keys,   \* the backend's content: key -> value
    s_last,       \* the last store operation: its arguments and its outcome
    phase,        \* how far the store object is in its life (history)
    supports_deletes,  \* Store.supports_deletes of the backend
    supports_listing,  \* Store.supports_listing of the backend
    writers,      \* the tasks that write to the array, each at its step
    locks,        \* the chunk locks of the synchronizer that are held
    synchronized, \* TRUE for a SynchronizedArray, FALSE for an Array
    callers,      \* the tasks that call the store, each at its step
    array_lock,   \* the array lock of the synchronizer: who holds it, how often
    shapes        \* Array._shape of each Array object over the one store

array_vars == <<meta_shape, _shape, _chunks, _fill_value, store_data, last>>
store_vars == <<_is_open, _mode, store_keys, s_last, phase,
                supports_deletes, supports_listing>>
conc_vars == <<writers, locks, synchronized, callers, array_lock, shapes>>
vars == <<meta_shape, _shape, _chunks, _fill_value, store_data, last, hist,
          _is_open, _mode, store_keys, s_last, phase,
          supports_deletes, supports_listing,
          writers, locks, synchronized, callers, array_lock, shapes>>

----------------------------------------------------------------------------
(* Bounds of the model. *)

MaxLen == 3     \* the largest extent of a one-dimensional array
MaxChunk == 2   \* the largest chunk extent of a one-dimensional array
ScenarioLen == 5 \* the number of operations of a scenario run

(* The element values of the general specification. *)
Values == {0, 1}

(* Python's None, where the source uses it for "no fill value". *)
None == -1

----------------------------------------------------------------------------
(* numpy arrays. *)

RECURSIVE Prod(_)
Prod(s) == IF s = <<>> THEN 1 ELSE Head(s) * Prod(Tail(s))

(* The C-order offset of index idx in an array of shape s. *)
RECURSIVE COffset(_, _)
COffset(s, idx) ==
    IF s = <<>> THEN 0
    ELSE Head(idx) * Prod(Tail(s)) + COffset(Tail(s), Tail(idx))

(* The index at C-order offset off of an array of shape s. *)
RECURSIVE Unravel(_, _)
Unravel(s, off) ==
    IF s = <<>> THEN <<>>
    ELSE <<off \div Prod(Tail(s))>> \o Unravel(Tail(s), off % Prod(Tail(s)))

Max(a, b) == IF a >= b THEN a ELSE b
Min(a, b) == IF a <= b THEN a ELSE b

SelShape(sel) == [d \in 1..Len(sel) |-> Max(0, sel[d][2] - sel[d][1])]
SelStart(sel) == [d \in 1..Len(sel) |-> sel[d][1]]
InSel(idx, sel) == \A d \in 1..Len(sel) : sel[d][1] <= idx[d] /\ idx[d] < sel[d][2]

(* A scalar is carried as an array of shape (): np.isscalar tells it apart. *)
Scalar(v) == [shape |-> <<>>, flat |-> <<v>>]
isscalar(value) == value.shape = <<>>

(* np.empty(shape) whose memory holds the values mem (any values at all). *)
np_empty(shape, mem) == [shape |-> shape, flat |-> [k \in 1..Prod(shape) |-> mem[k]]]

(* a.fill(v) *)
fill(a, v) == [a EXCEPT !.flat = [k \in 1..Len(a.flat) |-> v]]

(* a[sel] for a tuple of unit-step slices: numpy clips a slice to the axis   *)
(* and takes whole the axes the tuple leaves out.                           *)
getslice(a, sel0) ==
    LET sel == [d \in 1..Len(a.shape) |->
                   IF d > Len(sel0) THEN <<0, a.shape[d]>>
                   ELSE <<Min(sel0[d][1], a.shape[d]), Min(sel0[d][2], a.shape[d])>>]
        sh == SelShape(sel)
    IN  [shape |-> sh,
         flat  |-> [k \in 1..Prod(sh) |->
                      a.flat[1 + COffset(a.shape,
                          [d \in 1..Len(sh) |-> Unravel(sh, k - 1)[d] + sel[d][1]])]]]

(* Whether numpy can store value into a region of shape sh: value's shape,  *)
(* without its leading axes of extent 1, must broadcast to sh.              *)
RECURSIVE StripOnes(_)
StripOnes(s) == IF s # <<>> /\ Head(s) = 1 THEN StripOnes(Tail(s)) ELSE s
CanAssign(sh, value) ==
    LET vs == StripOnes(value.shape)
        n == Len(vs)
        m == Len(sh)
    IN  /\ n <= m
        /\ \A j \in 1..n : vs[j] = sh[m - n + j] \/ vs[j] = 1

(* a[sel] = value, for a value that CanAssign to the region *)
setslice(a, sel, value) ==
    [a EXCEPT !.flat = [k \in 1..Len(a.flat) |->
        LET idx == Unravel(a.shape, k - 1)
            m == Len(idx)
            q == Len(value.shape)
        IN  IF InSel(idx, sel)
            THEN value.flat[1 + COffset(value.shape,
                     [j \in 1..q |-> IF value.shape[j] = 1 THEN 0
                                     ELSE idx[m - q + j] - sel[m - q + j][1]])]
            ELSE a.flat[k]]]

(* view.flags.c_contiguous of the view parent[sel]: every axis of the view  *)
(* of extent other than 1 has the stride of a packed array of the view's    *)
(* shape; a view without elements is contiguous.                            *)
RECURSIVE Drop(_, _)
Drop(s, n) == IF n = 0 THEN s ELSE Drop(Tail(s), n - 1)
c_contiguous(pshape, sel) ==
    LET sh == SelShape(sel)
    IN  \/ Prod(sh) = 0
        \/ \A d \in 1..Len(sh) :
              sh[d] = 1 \/ Prod(Drop(pshape, d)) = Prod(Drop(sh, d))

----------------------------------------------------------------------------
(* The compression pipeline and the chunk keys. *)

(* blosc.compress(chunk, ...): the blob carries the chunk's buffer in C order *)
compress(chunk) == [codec |-> "blosc", nbytes |-> Len(chunk.flat), bytes |-> chunk.flat]

(* blosc.decompress(cdata, dest): fills dest's buffer, which must have the  *)
(* blob's size.                                                             *)
CanDecompress(cdata, shape) == cdata.nbytes = Prod(shape)
decompress(cdata, shape) == [shape |-> shape, flat |-> cdata.bytes]

(* '.'.join(map(str, cidx)) *)
RECURSIVE ckey(_)
ckey(cidx) ==
    IF Len(cidx) = 1 THEN ToString(cidx[1])
    ELSE ToString(Head(cidx)) \o "." \o ckey(Tail(cidx))

----------------------------------------------------------------------------
(* zarr.util *)

(* An item is a tuple with, per axis, "all" (slice(None)) or a pair         *)
(* <<start, stop>>; axes left out are taken whole; stop is clipped.         *)
normalize_array_selection(item, shape) ==
    [d \in 1..Len(shape) |->
        IF d > Len(item) \/ item[d] = <<>> THEN <<0, shape[d]>>
        ELSE <<item[d][1], Min(item[d][2], shape[d])>>]

CeilDiv(a, b) == (a + b - 1) \div b

(* Per axis range(floor(start/c), ceil(stop/c)), as the pair <<first, end>>. *)
get_chunk_range(selection, chunks) ==
    [d \in 1..Len(selection) |->
        <<selection[d][1] \div chunks[d], CeilDiv(selection[d][2], chunks[d])>>]

(* Whether item covers a whole array of the given shape. *)
is_total_slice(item, shape) ==
    \A d \in 1..Len(item) : item[d][2] - item[d][1] = shape[d]

----------------------------------------------------------------------------
(* Array: the chunk engine. *)

(* itertools.product over chunk_range: the chunk indices in row-major order. *)
RECURSIVE product(_)
product(ranges) ==
    IF ranges = <<>> THEN << <<>> >>
    ELSE LET rest == product(Tail(ranges))
             lo == Head(ranges)[1]
             n == Max(0, Head(ranges)[2] - lo)
             m == Len(rest)
         IN  [k \in 1..(n * m) |-> <<lo + ((k - 1) \div m)>> \o rest[1 + ((k - 1) % m)]]

(* offset = [i * c for i, c in zip(cidx, self._chunks)] *)
chunk_offset(cidx) == [d \in 1..Len(cidx) |-> cidx[d] * _chunks[d]]

(* out_selection whose stop is not clipped to the selection: the fault the   *)
(* claim about the geometry of a selection tells from the code.             *)
out_selection_NotClipped(selection, cidx) ==
    LET o == chunk_offset(cidx)
    IN  [d \in 1..Len(selection) |->
            <<Max(0, o[d] - selection[d][1]), o[d] + _chunks[d] - selection[d][1]>>]

(* The region of the output (or value) array that chunk cidx supplies. *)
out_selection(selection, cidx) ==
    LET o == chunk_offset(cidx)
    IN  [d \in 1..Len(selection) |->
            <<Max(0, o[d] - selection[d][1]),
              Min(o[d] + _chunks[d] - selection[d][1], selection[d][2] - selection[d][1])>>]

(* chunk_selection with the stop left relative to the array, not rebased to  *)
(* the chunk: the fault the scenario trace tells from the code.             *)
chunk_selection_StopNotRebased(selection, cidx) ==
    LET o == chunk_offset(cidx)
    IN  [d \in 1..Len(selection) |->
            <<Max(0, selection[d][1] - o[d]), Min(_chunks[d], selection[d][2])>>]

(* The region within chunk cidx that the selection covers. *)
chunk_selection(selection, cidx) ==
    LET o == chunk_offset(cidx)
    IN  [d \in 1..Len(selection) |->
            <<Max(0, selection[d][1] - o[d]), Min(_chunks[d], selection[d][2] - o[d])>>]

(* _chunk_getitem that leaves the destination as it is when the chunk key is *)
(* absent, fill value or not: the fault the read claim tells from the code. *)
_chunk_getitem_NoFill(data, cidx, item, out, dest_sel) ==
    LET k == ckey(cidx)
    IN  IF k \notin DOMAIN data
        THEN [out |-> out, err |-> "ok"]
        ELSE LET chunk == getslice(decompress(data[k], _chunks), item)
             IN  IF CanDecompress(data[k], _chunks) /\ CanAssign(SelShape(dest_sel), chunk)
                 THEN [out |-> setslice(out, dest_sel, chunk), err |-> "ok"]
                 ELSE [out |-> out, err |-> "ValueError"]

(* blosc.decompress(cdata, dest) for a view dest = out[dest_sel]: the bytes   *)
(* of the blob go, in order, to the memory that starts at the first element *)
(* of the view; out is the parent array after that.                         *)
decompress_into(cdata, out, dest_sel) ==
    LET base == COffset(out.shape, SelStart(dest_sel))
        n == Prod(SelShape(dest_sel))
    IN  [out EXCEPT !.flat = [k \in 1..Len(out.flat) |->
            IF base < k /\ k <= base + n THEN cdata.bytes[k - base]
            ELSE out.flat[k]]]

(* The fast path of _chunk_getitem: decompress directly into the destination. *)
fast_path(cdata, out, dest_sel) ==
    IF CanDecompress(cdata, SelShape(dest_sel))
    THEN [out |-> decompress_into(cdata, out, dest_sel), err |-> "ok"]
    ELSE [out |-> out, err |-> "ValueError"]

(* The general path of _chunk_getitem: decompress the chunk into a buffer of *)
(* its own, then copy item of it to the destination.                        *)
general_path(cdata, item, out, dest_sel) ==
    LET tmp == getslice(decompress(cdata, _chunks), item)
    IN  IF CanDecompress(cdata, _chunks) /\ CanAssign(SelShape(dest_sel), tmp)
        THEN [out |-> setslice(out, dest_sel, tmp), err |-> "ok"]
        ELSE [out |-> out, err |-> "ValueError"]

(* _chunk_getitem that takes the fast path for every whole chunk, whether    *)
(* the destination is contiguous or not: the fault the claim about the two  *)
(* paths tells from the code.                                               *)
_chunk_getitem_FastAnyway(data, cidx, item, out, dest_sel) ==
    LET k == ckey(cidx)
    IN  IF k \notin DOMAIN data
        THEN [out |-> IF _fill_value # None
                      THEN setslice(out, dest_sel, Scalar(_fill_value))
                      ELSE out,
              err |-> "ok"]
        ELSE IF is_total_slice(item, _chunks)
             THEN fast_path(data[k], out, dest_sel)
             ELSE general_path(data[k], item, out, dest_sel)

(* Array._chunk_getitem on the store content data: loads item of chunk cidx  *)
(* into out[dest_sel]; the result is [out, err].                             *)
_chunk_getitem(data, cidx, item, out, dest_sel) ==
    LET k == ckey(cidx)
    IN  IF k \notin DOMAIN data
        THEN \* chunk not initialized
             [out |-> IF _fill_value # None
                      THEN setslice(out, dest_sel, Scalar(_fill_value))
                      ELSE out,
              err |-> "ok"]
        ELSE IF is_total_slice(item, _chunks) /\ c_contiguous(out.shape, dest_sel)
             THEN fast_path(data[k], out, dest_sel)
             ELSE general_path(data[k], item, out, dest_sel)

RECURSIVE getitem_loop(_, _, _, _, _)
getitem_loop(data, selection, cidxs, i, acc) ==
    IF i > Len(cidxs) \/ acc.err # "ok" THEN acc
    ELSE getitem_loop(data, selection, cidxs, i + 1,
             _chunk_getitem(data, cidxs[i], chunk_selection(selection, cidxs[i]),
                            acc.out, out_selection(selection, cidxs[i])))

(* Array.__getitem__(item) for an Array whose _shape is shape, on the store   *)
(* content data, with mem the content of the memory np.empty hands out; the  *)
(* result is [out, err].                                                     *)
__getitem__(shape, data, item, mem) ==
    LET selection == normalize_array_selection(item, shape)
        out_shape == SelShape(selection)
        out == np_empty(out_shape, mem)
        chunk_range == get_chunk_range(selection, _chunks)
    IN  getitem_loop(data, selection, product(chunk_range), 1,
                     [out |-> out, err |-> "ok"])

Put(f, k, v) == [x \in (DOMAIN f) \cup {k} |-> IF x = k THEN v ELSE f[x]]

(* _chunk_setitem that modifies a partly covered chunk and does not store it *)
(* back: the fault the round trip tells from the code.                      *)
_chunk_setitem_NotStored(data, cidx, key, value, mem) ==
    IF is_total_slice(key, _chunks)
    THEN LET chunk == IF isscalar(value)
                      THEN fill(np_empty(_chunks, mem), value.flat[1])
                      ELSE value
         IN  [data |-> Put(data, ckey(cidx), compress(chunk)), err |-> "ok"]
    ELSE [data |-> data, err |-> "ok"]

(* _chunk_setitem that builds a partly covered chunk from the fill value,   *)
(* whether the chunk key is present or not: the fault the frame claim tells *)
(* from the code.                                                           *)
_chunk_setitem_NotLoaded(data, cidx, key, value, mem) ==
    IF is_total_slice(key, _chunks)
    THEN LET chunk == IF isscalar(value)
                      THEN fill(np_empty(_chunks, mem), value.flat[1])
                      ELSE value
         IN  [data |-> Put(data, ckey(cidx), compress(chunk)), err |-> "ok"]
    ELSE LET chunk == IF _fill_value # None
                      THEN fill(np_empty(_chunks, mem), _fill_value)
                      ELSE np_empty(_chunks, mem)
         IN  IF CanAssign(SelShape(key), value)
             THEN [data |-> Put(data, ckey(cidx), compress(setslice(chunk, key, value))),
                   err |-> "ok"]
             ELSE [data |-> data, err |-> "ValueError"]

(* Array._chunk_setitem on the store content data; the result is [data, err]. *)
_chunk_setitem(data, cidx, key, value, mem) ==
    LET k == ckey(cidx)
    IN  IF is_total_slice(key, _chunks)
        THEN \* completely replacing the chunk: the existing data is not read
             LET chunk == IF isscalar(value)
                          THEN fill(np_empty(_chunks, mem), value.flat[1])
                          ELSE value  \* np.ascontiguousarray: a C-order copy
             IN  [data |-> Put(data, k, compress(chunk)), err |-> "ok"]
        ELSE \* partially replace the contents of this chunk
             LET chunk == IF k \notin DOMAIN data
                          THEN IF _fill_value # None
                               THEN fill(np_empty(_chunks, mem), _fill_value)
                               ELSE np_empty(_chunks, mem)
                          ELSE decompress(data[k], _chunks)
             IN  IF /\ k \in DOMAIN data => CanDecompress(data[k], _chunks)
                    /\ CanAssign(SelShape(key), value)
                 THEN [data |-> Put(data, k, compress(setslice(chunk, key, value))),
                       err |-> "ok"]
                 ELSE [data |-> data, err |-> "ValueError"]

RECURSIVE setitem_loop(_, _, _, _, _, _)
setitem_loop(selection, cidxs, i, value, mem, acc) ==
    IF i > Len(cidxs) \/ acc.err # "ok" THEN acc
    ELSE setitem_loop(selection, cidxs, i + 1, value, mem,
             _chunk_setitem(acc.data, cidxs[i], chunk_selection(selection, cidxs[i]),
                 IF isscalar(value) THEN value
                 ELSE getslice(value, out_selection(selection, cidxs[i])),
                 mem))

(* Array.__setitem__(key, value) for an Array whose _shape is shape, on the  *)
(* store content data; the result is [data, err].                            *)
__setitem__(shape, data, key, value, mem) ==
    LET selection == normalize_array_selection(key, shape)
        chunk_range == get_chunk_range(selection, _chunks)
    IN  setitem_loop(selection, product(chunk_range), 1, value, mem,
                     [data |-> data, err |-> "ok"])

(* Array.resize(new_shape): the store replaces the shape metadata and keeps  *)
(* every chunk key; the Array then re-reads its cached shape.                *)
store_resize(new_shape) == new_shape
resize(new_shape) ==
    LET meta == store_resize(new_shape)
    IN  [meta |-> meta, shape |-> meta]

(* tuple(s for i, s in enumerate(shape) if i != axis) *)
shape_preserved(shape, axis) ==
    LET keep == SelectSeq([i \in 1..Len(shape) |-> i], LAMBDA i : i - 1 # axis)
    IN  [k \in 1..Len(keep) |-> shape[keep[k]]]

(* append that resizes before it compares the shapes: the fault the claim    *)
(* about a refused append tells from the code.                              *)
append_ResizeFirst(data, axis, mem) ==
    LET new_shape == [d \in 1..Len(_shape) |->
                         IF d - 1 # axis THEN _shape[d] ELSE _shape[d] + data.shape[d]]
        resized == resize(new_shape)
        append_selection == [d \in 1..Len(_shape) |->
                                IF d - 1 # axis THEN <<>>
                                ELSE <<_shape[d], new_shape[d]>>]
        written == __setitem__(resized.shape, store_data, append_selection, data, mem)
    IN  IF shape_preserved(_shape, axis) # shape_preserved(data.shape, axis)
        THEN [meta |-> resized.meta, shape |-> resized.shape, data |-> store_data,
              err |-> "ValueError"]
        ELSE [meta |-> resized.meta, shape |-> resized.shape,
              data |-> written.data, err |-> written.err]

(* Array.append(data, axis); the result is [meta, shape, data, err]. *)
append(data, axis, mem) ==
    LET unchanged == [meta |-> meta_shape, shape |-> _shape, data |-> store_data]
    IN  IF shape_preserved(_shape, axis) # shape_preserved(data.shape, axis)
        THEN unchanged @@ [err |-> "ValueError"]
        ELSE IF axis \in 0..(Len(_shape) - 1) /\ axis >= Len(data.shape)
        THEN \* data.shape[axis]: tuple index out of range
             unchanged @@ [err |-> "IndexError"]
        ELSE LET old_shape == _shape
                 new_shape == [d \in 1..Len(_shape) |->
                                  IF d - 1 # axis THEN _shape[d]
                                  ELSE _shape[d] + data.shape[d]]
                 resized == resize(new_shape)
                 append_selection == [d \in 1..Len(_shape) |->
                                         IF d - 1 # axis THEN <<>>
                                         ELSE <<old_shape[d], new_shape[d]>>]
                 written == __setitem__(resized.shape, store_data,
                                        append_selection, data, mem)
             IN  [meta |-> resized.meta, shape |-> resized.shape,
                  data |-> written.data, err |-> written.err]

----------------------------------------------------------------------------
(* The inputs of the general specification. *)

(* One-dimensional arrays up to MaxLen, two-dimensional arrays up to 2 x 2. *)
Shapes == {<<n>> : n \in 1..MaxLen} \cup [1..2 -> 1..2]
ShapesOfDim(n) == {s \in Shapes : Len(s) = n}
ChunkShapes(n) == IF n = 1 THEN {<<c>> : c \in 1..MaxChunk} ELSE [1..2 -> 1..2]
FillValues == {0, None}
(* The selections within shape; the empty ones (start = stop) are drawn for *)
(* one-dimensional arrays.                                                  *)
Selections(shape) ==
    {sel \in [1..Len(shape) -> (0..MaxLen) \X (0..MaxLen)] :
        \A d \in 1..Len(shape) :
            /\ sel[d][1] <= sel[d][2] /\ sel[d][2] <= shape[d]
            /\ Len(shape) > 1 => sel[d][1] < sel[d][2]}
ArraysOf(shape) == {[shape |-> shape, flat |-> f] : f \in [1..Prod(shape) -> Values]}
ValuesFor(sel) == ArraysOf(SelShape(sel)) \cup {Scalar(v) : v \in Values}
Memory(n) == [1..n -> Values]
Zeros(n) == [k \in 1..n |-> 0]
(* The memory np.empty hands to a chunk buffer.  It is seen only when the   *)
(* array has no fill value (ndarray.fill overwrites every element) and a    *)
(* write to the selection builds a chunk that is absent and not wholly      *)
(* covered, so only then is it enumerated.                                  *)
ChunkMemory(shape, item) ==
    LET selection == normalize_array_selection(item, shape)
        cidxs == product(get_chunk_range(selection, _chunks))
    IN  IF /\ _fill_value = None
           /\ \E i \in 1..Len(cidxs) :
                 /\ ckey(cidxs[i]) \notin DOMAIN store_data
                 /\ ~is_total_slice(chunk_selection(selection, cidxs[i]), _chunks)
        THEN Memory(Prod(_chunks))
        ELSE {Zeros(Prod(_chunks))}
Axes == -1..1
(* The chunk memory of the write an append of data of shape dshape makes. *)
AppendMemory(dshape, axis) ==
    LET new_shape == [d \in 1..Len(_shape) |->
                         IF d - 1 # axis THEN _shape[d] ELSE _shape[d] + dshape[d]]
    IN  ChunkMemory(new_shape,
            [d \in 1..Len(_shape) |->
                IF d - 1 # axis THEN <<>> ELSE <<_shape[d], new_shape[d]>>])

NoValue == [shape |-> <<0>>, flat |-> <<>>]
NoOp == [op |-> "none", item |-> <<>>, value |-> NoValue, axis |-> 0, err |-> "ok"]

----------------------------------------------------------------------------
(* The array operations as actions.                                         *)
(*                                                                          *)
(* last records one operation of a behaviour with its arguments and its     *)
(* outcome; the operations before it run unrecorded (last stays NoOp).  No  *)
(* operation reads last, so the successors of a state that holds a record   *)
(* are those of the same state without it, which is reachable too: the      *)
(* model does not explore them a second time (Unrecorded).                  *)

Unrecorded == last = NoOp
Record(r) == last' \in {NoOp, r}

Array_getitem(item, mem) ==
    LET r == __getitem__(_shape, store_data, item, mem)
    IN  /\ last' = [op |-> "getitem", item |-> item, value |-> r.out,
                    axis |-> 0, err |-> r.err]
        /\ UNCHANGED <<meta_shape, _shape, _chunks, _fill_value, store_data>>

Array_setitem(item, value, mem) ==
    LET r == __setitem__(_shape, store_data, item, value, mem)
    IN  /\ store_data' = r.data
        /\ Record([op |-> "setitem", item |-> item, value |-> value,
                   axis |-> 0, err |-> r.err])
        /\ UNCHANGED <<meta_shape, _shape, _chunks, _fill_value>>

Array_resize(new_shape) ==
    LET r == resize(new_shape)
    IN  /\ meta_shape' = r.meta
        /\ _shape' = r.shape
        /\ Record([op |-> "resize", item |-> <<>>,
                   value |-> [shape |-> new_shape, flat |-> <<>>],
                   axis |-> 0, err |-> "ok"])
        /\ UNCHANGED <<_chunks, _fill_value, store_data>>

Array_append(data, axis, mem) ==
    LET r == append(data, axis, mem)
    IN  /\ r.shape \in Shapes
        /\ meta_shape' = r.meta
        /\ _shape' = r.shape
        /\ store_data' = r.data
        /\ Record([op |-> "append", item |-> <<>>, value |-> data,
                   axis |-> axis, err |-> r.err])
        /\ UNCHANGED <<_chunks, _fill_value>>

(* No store object yet, over a backend without content. *)
NoMode == [str |-> "none", readonly |-> FALSE, overwrite |-> FALSE,
           create |-> FALSE, update |-> FALSE]
NoStoreOp == [op |-> "none", arg |-> "", err |-> "ok",
              was_open |-> FALSE, mode |-> NoMode, before |-> <<>>]
StoreIdle ==
    /\ _is_open = FALSE
    /\ _mode = NoMode
    /\ store_keys = <<>>
    /\ s_last = NoStoreOp
    /\ phase = "new"
    /\ supports_deletes = TRUE
    /\ supports_listing = TRUE

(* No task runs; nobody holds the array lock. *)
NoLock == [holder |-> 0, count |-> 0, reentrant |-> FALSE]
ConcIdle ==
    /\ writers = <<>>
    /\ locks = {}
    /\ synchronized = FALSE
    /\ callers = <<>>
    /\ array_lock = NoLock
    /\ shapes = <<>>

ArrayInit ==
    /\ meta_shape \in Shapes
    /\ _shape = meta_shape
    /\ _chunks \in ChunkShapes(Len(meta_shape))
    /\ _fill_value \in FillValues
    /\ store_data = <<>>
    /\ last = NoOp
    /\ hist = <<>>
    /\ StoreIdle
    /\ ConcIdle

ArrayNext ==
    \/ /\ Unrecorded
       /\ \E item \in Selections(_shape) :
             \E mem \in Memory(Prod(SelShape(item))) : Array_getitem(item, mem)
       /\ UNCHANGED <<hist, store_vars, conc_vars>>
    \/ /\ Unrecorded
       /\ \E item \in Selections(_shape) :
             \E value \in ValuesFor(item), mem \in ChunkMemory(_shape, item) :
                Array_setitem(item, value, mem)
       /\ UNCHANGED <<hist, store_vars, conc_vars>>
    \/ /\ Unrecorded
       /\ \E new_shape \in ShapesOfDim(Len(_shape)) : Array_resize(new_shape)
       /\ UNCHANGED <<hist, store_vars, conc_vars>>
    \/ /\ Unrecorded
       /\ \E shape \in ShapesOfDim(Len(_shape)), axis \in Axes :
             \E data \in ArraysOf(shape), mem \in AppendMemory(shape, axis) :
                Array_append(data, axis, mem)
       /\ UNCHANGED <<hist, store_vars, conc_vars>>

Spec == ArrayInit /\ [][ArrayNext]_vars


----------------------------------------------------------------------------
(* The scenario: one array of shape (10,), chunk shape (5,), fill value 0   *)
(* over an empty chunk store, and runs of up to ScenarioLen reads and       *)
(* writes, recorded in hist.                                                *)

Arange5 == [shape |-> <<5>>, flat |-> <<0, 1, 2, 3, 4>>]
Whole == << <<0, 10>> >>
ScenarioReads == {Whole, << <<3, 7>> >>}
ScenarioWrites ==
    {[item |-> << <<5, 10>> >>, value |-> Arange5],
     [item |-> << <<3, 7>> >>,  value |-> Scalar(99)],
     [item |-> << <<0, 5>> >>,  value |-> Scalar(7)]}
(* What the memory np.empty hands out may hold: it is all of one value here. *)
ScenarioMemory(n) == {[k \in 1..n |-> v] : v \in {0, 7}}

ArrayIdle ==
    /\ meta_shape = <<1>>
    /\ _shape = <<1>>
    /\ _chunks = <<1>>
    /\ _fill_value = 0
    /\ store_data = <<>>
    /\ last = NoOp
    /\ hist = <<>>

ScenarioInit ==
    /\ meta_shape = <<10>>
    /\ _shape = <<10>>
    /\ _chunks = <<5>>
    /\ _fill_value = 0
    /\ store_data = <<>>
    /\ last = NoOp
    /\ hist = <<>>
    /\ StoreIdle
    /\ ConcIdle

Scenario_getitem(item, mem) ==
    /\ Array_getitem(item, mem)
    /\ hist' = Append(hist, last')

Scenario_setitem(item, value, mem) ==
    /\ Array_setitem(item, value, mem)
    /\ last' # NoOp
    /\ hist' = Append(hist, last')

ScenarioNext ==
    \/ /\ Len(hist) < ScenarioLen
       /\ \E item \in ScenarioReads :
             \E mem \in ScenarioMemory(Prod(SelShape(item))) : Scenario_getitem(item, mem)
       /\ UNCHANGED <<store_vars, conc_vars>>
    \/ /\ Len(hist) < ScenarioLen
       /\ \E w \in ScenarioWrites :
             Scenario_setitem(w.item, w.value, Zeros(Prod(_chunks)))
       /\ UNCHANGED <<store_vars, conc_vars>>

ScenarioSpec == ScenarioInit /\ [][ScenarioNext]_vars

----------------------------------------------------------------------------
(* AccessMode and the Store lifecycle (src/src/zarr/abc/store.py).          *)

(* The tokens handed to AccessMode.from_literal: the five literals and      *)
(* strings that are none of them.                                           *)
Literals == {"r", "r+", "w", "w-", "a"}
Tokens == Literals \cup {"", "x", "R", "rw", "w+", "a-"}

(* from_literal that takes the create flag for the overwrite flag of w-: the *)
(* fault the flag table tells from the code.                                *)
from_literal_Flags(mode) ==
    IF mode \in {"r", "r+", "a", "w", "w-"}
    THEN [err |-> "ok",
          mode |-> [str |-> mode,
                    readonly |-> (mode = "r"),
                    overwrite |-> (mode \in {"w", "w-"}),
                    create |-> (mode \in {"a", "w"}),
                    update |-> (mode \in {"r+", "a"})]]
    ELSE [err |-> "ValueError", mode |-> NoMode]

(* AccessMode.from_literal(mode); the result is [err, mode]. *)
from_literal(mode) ==
    IF mode \in {"r", "r+", "a", "w", "w-"}
    THEN [err |-> "ok",
          mode |-> [str |-> mode,
                    readonly |-> (mode = "r"),
                    overwrite |-> (mode = "w"),
                    create |-> (mode \in {"a", "w", "w-"}),
                    update |-> (mode \in {"r+", "a"})]]
    ELSE [err |-> "ValueError", mode |-> NoMode]

(* Store.__init__(mode=...); the result is [err, is_open, mode].  When      *)
(* from_literal raises, no store object comes to exist.                     *)
Store__init__(mode) ==
    LET m == from_literal(mode)
    IN  [err |-> m.err, is_open |-> FALSE, mode |-> m.mode]

(* Store.empty and Store.clear of a backend that holds the content keys. *)
empty(keys) == DOMAIN keys = {}
clear(keys) == <<>>

(* _open that clears a store in mode w before it looks at the flag: the      *)
(* fault the claim about a second open tells from the code.                 *)
_open_ClearFirst(is_open, mode, keys) ==
    LET kept == IF mode.str = "w" THEN clear(keys) ELSE keys
    IN  IF is_open
        THEN [err |-> "ValueError", is_open |-> is_open, keys |-> kept]
        ELSE IF mode.str = "w-" /\ ~empty(keys)
        THEN [err |-> "FileExistsError", is_open |-> is_open, keys |-> keys]
        ELSE [err |-> "ok", is_open |-> TRUE, keys |-> kept]

(* _open that clears the store in every mode that creates: the fault the     *)
(* claim about what an open removes tells from the code.                    *)
_open_ClearOnCreate(is_open, mode, keys) ==
    IF is_open
    THEN [err |-> "ValueError", is_open |-> is_open, keys |-> keys]
    ELSE IF mode.str = "w-" /\ ~empty(keys)
    THEN [err |-> "FileExistsError", is_open |-> is_open, keys |-> keys]
    ELSE [err |-> "ok", is_open |-> TRUE,
          keys |-> IF mode.create THEN clear(keys) ELSE keys]

(* _open that sets the flag before the check of mode w-: the fault the claim *)
(* about exclusive creation tells from the code.                             *)
_open_FlagFirst(is_open, mode, keys) ==
    IF is_open
    THEN [err |-> "ValueError", is_open |-> is_open, keys |-> keys]
    ELSE IF mode.str = "w"
    THEN [err |-> "ok", is_open |-> TRUE, keys |-> clear(keys)]
    ELSE IF mode.str = "w-" /\ ~empty(keys)
    THEN [err |-> "FileExistsError", is_open |-> TRUE, keys |-> keys]
    ELSE [err |-> "ok", is_open |-> TRUE, keys |-> keys]

(* Store._open on a store with the given flag, mode and content; the result *)
(* is [err, is_open, keys].                                                 *)
_open(is_open, mode, keys) ==
    IF is_open
    THEN [err |-> "ValueError", is_open |-> is_open, keys |-> keys]
    ELSE IF mode.str = "w"
    THEN [err |-> "ok", is_open |-> TRUE, keys |-> clear(keys)]
    ELSE IF mode.str = "w-" /\ ~empty(keys)
    THEN [err |-> "FileExistsError", is_open |-> is_open, keys |-> keys]
    ELSE [err |-> "ok", is_open |-> TRUE, keys |-> keys]

(* _ensure_open that calls _open whatever the flag says: the fault the       *)
(* claim about an idempotent open tells from the code.                      *)
_ensure_open_Always(is_open, mode, keys) == _open(is_open, mode, keys)

(* Store._ensure_open *)
_ensure_open(is_open, mode, keys) ==
    IF ~is_open THEN _open(is_open, mode, keys)
    ELSE [err |-> "ok", is_open |-> is_open, keys |-> keys]

(* Store._check_writable: the error it raises, if any. *)
_check_writable(mode) == IF mode.readonly THEN "ValueError" ELSE "ok"

(* Store.set(key, value) of a backend: refused on a read-only store. *)
set(mode, keys, key, value) ==
    IF _check_writable(mode) # "ok"
    THEN [err |-> _check_writable(mode), keys |-> keys]
    ELSE [err |-> "ok", keys |-> Put(keys, key, value)]

(* str.startswith and str.endswith of the key strings. *)
startswith(key, prefix) ==
    Len(prefix) <= Len(key) /\ SubSeq(key, 1, Len(prefix)) = prefix
endswith(key, suffix) ==
    Len(suffix) <= Len(key)
        /\ SubSeq(key, Len(key) - Len(suffix) + 1, Len(key)) = suffix

(* Store.list_prefix of a backend: the keys that begin with the prefix. *)
list_prefix(keys, prefix) == {k \in DOMAIN keys : startswith(k, prefix)}

(* Store.delete of a backend, applied to every key of a listing. *)
delete(keys, listed) == [k \in DOMAIN keys \ listed |-> keys[k]]

(* delete_dir that does not ask whether the store is writable: the fault    *)
(* the claim about a refused delete_dir tells from the code.                *)
delete_dir_NotChecked(deletes, listing, mode, keys, prefix) ==
    IF ~deletes \/ ~listing
    THEN [err |-> "NotImplementedError", keys |-> keys]
    ELSE LET p == IF endswith(prefix, "/") THEN prefix ELSE prefix \o "/"
         IN  [err |-> "ok", keys |-> delete(keys, list_prefix(keys, p))]

(* delete_dir that lists the prefix as the caller passed it, without the    *)
(* trailing separator: the fault the frame of delete_dir tells from the     *)
(* code.                                                                    *)
delete_dir_AsPassed(deletes, listing, mode, keys, prefix) ==
    IF ~deletes THEN [err |-> "NotImplementedError", keys |-> keys]
    ELSE IF ~listing THEN [err |-> "NotImplementedError", keys |-> keys]
    ELSE IF _check_writable(mode) # "ok"
    THEN [err |-> _check_writable(mode), keys |-> keys]
    ELSE [err |-> "ok", keys |-> delete(keys, list_prefix(keys, prefix))]

(* Store.delete_dir(prefix) on a store with the given capabilities, mode    *)
(* and content; the result is [err, keys].                                  *)
delete_dir(deletes, listing, mode, keys, prefix) ==
    IF ~deletes THEN [err |-> "NotImplementedError", keys |-> keys]
    ELSE IF ~listing THEN [err |-> "NotImplementedError", keys |-> keys]
    ELSE IF _check_writable(mode) # "ok"
    THEN [err |-> _check_writable(mode), keys |-> keys]
    ELSE LET p == IF endswith(prefix, "/") THEN prefix ELSE prefix \o "/"
         IN  [err |-> "ok", keys |-> delete(keys, list_prefix(keys, p))]

(* Store.close *)
close(is_open) == FALSE

(* The keys and the values of the backend. *)
Keys == {"a", "a/b", "ab/c"}
Prefixes == {"a", "a/", "ab"}
Blobs == {0, 1}
Contents == UNION {[K -> Blobs] : K \in SUBSET Keys}

(* s_last records the last store operation: its argument, its outcome, and  *)
(* the flag, the mode and the content it found.                             *)
Constructed == _mode # NoMode
StoreRecord(op, arg, err) ==
    [op |-> op, arg |-> arg, err |-> err,
     was_open |-> _is_open, mode |-> _mode, before |-> store_keys]

(* phase tells the life of the store object: "new" after construction,     *)
(* "open" after its first successful open, "closed" after a close, and      *)
(* "reopened" when an open succeeded after a close.  Opened is the phase    *)
(* after a call of _open or _ensure_open that found the flag was_open and   *)
(* had the result r.                                                        *)
Opened(ph, was_open, r) ==
    IF ~was_open /\ r.is_open
    THEN (IF ph = "new" THEN "open" ELSE "reopened")
    ELSE ph

Store_init(mode) ==
    LET r == Store__init__(mode)
    IN  /\ ~Constructed
        /\ _is_open' = r.is_open
        /\ _mode' = r.mode
        /\ s_last' = StoreRecord("__init__", mode, r.err)
        /\ UNCHANGED <<store_keys, phase, supports_deletes, supports_listing>>

Store_open ==
    LET r == _open(_is_open, _mode, store_keys)
    IN  /\ Constructed
        /\ _is_open' = r.is_open
        /\ store_keys' = r.keys
        /\ s_last' = StoreRecord("_open", "", r.err)
        /\ phase' = Opened(phase, _is_open, r)
        /\ UNCHANGED <<_mode, supports_deletes, supports_listing>>

Store_ensure_open ==
    LET r == _ensure_open(_is_open, _mode, store_keys)
    IN  /\ Constructed
        /\ _is_open' = r.is_open
        /\ store_keys' = r.keys
        /\ s_last' = StoreRecord("_ensure_open", "", r.err)
        /\ phase' = Opened(phase, _is_open, r)
        /\ UNCHANGED <<_mode, supports_deletes, supports_listing>>

(* set is called on an open store, as the lifecycle has it. *)
Store_set(key, value) ==
    LET r == set(_mode, store_keys, key, value)
    IN  /\ Constructed
        /\ _is_open
        /\ store_keys' = r.keys
        /\ s_last' = StoreRecord("set", key, r.err)
        /\ UNCHANGED <<_is_open, _mode, phase, supports_deletes, supports_listing>>

(* delete_dir is called on an open store, as the lifecycle has it. *)
Store_delete_dir(prefix) ==
    LET r == delete_dir(supports_deletes, supports_listing, _mode,
                        store_keys, prefix)
    IN  /\ Constructed
        /\ _is_open
        /\ store_keys' = r.keys
        /\ s_last' = StoreRecord("delete_dir", prefix, r.err)
        /\ UNCHANGED <<_is_open, _mode, phase, supports_deletes, supports_listing>>

Store_close ==
    /\ Constructed
    /\ _is_open' = close(_is_open)
    /\ s_last' = StoreRecord("close", "", "ok")
    /\ phase' = "closed"
    /\ UNCHANGED <<_mode, store_keys, supports_deletes, supports_listing>>

StoreInit ==
    /\ ArrayIdle
    /\ _is_open = FALSE
    /\ _mode = NoMode
    /\ store_keys \in Contents
    /\ s_last = NoStoreOp
    /\ phase = "new"
    /\ supports_deletes \in BOOLEAN
    /\ supports_listing \in BOOLEAN
    /\ ConcIdle

StoreNext ==
    \/ (\E mode \in Tokens : Store_init(mode)) /\ UNCHANGED <<array_vars, hist, conc_vars>>
    \/ Store_open /\ UNCHANGED <<array_vars, hist, conc_vars>>
    \/ Store_ensure_open /\ UNCHANGED <<array_vars, hist, conc_vars>>
    \/ (\E key \in Keys, value \in Blobs : Store_set(key, value))
          /\ UNCHANGED <<array_vars, hist, conc_vars>>
    \/ (\E prefix \in Prefixes : Store_delete_dir(prefix))
          /\ UNCHANGED <<array_vars, hist, conc_vars>>
    \/ Store_close /\ UNCHANGED <<array_vars, hist, conc_vars>>

StoreSpec == StoreInit /\ [][StoreNext]_vars

----------------------------------------------------------------------------
(* Tasks that call set_if_not_exists on one open, writable store.  A task   *)
(* gives up control at each await: after exists has answered and after set  *)
(* has returned.                                                            *)

NumTasks == 2   \* the number of tasks that run together
Tasks == 1..NumTasks
TaskKeys == {"a", "a/b"}

(* Store.exists of a backend. *)
exists(keys, key) == key \in DOMAIN keys

(* set_if_not_exists that sets whatever exists has answered: the fault the   *)
(* claim about check-then-set tells from the code.                          *)
set_if_not_exists_Always(mode, keys, key, value, found) ==
    set(mode, keys, key, value)

(* The second half of Store.set_if_not_exists: the set that follows the     *)
(* answer found of exists.                                                  *)
set_if_not_exists(mode, keys, key, value, found) ==
    IF ~found THEN set(mode, keys, key, value)
    ELSE [err |-> "ok", keys |-> keys]

(* A task before its call; seen and replaced are history: the content when  *)
(* exists answered, and whether the set replaced a value that was present.  *)
NewTask(key, value) ==
    [pc |-> "start", key |-> key, value |-> value, found |-> FALSE,
     seen |-> <<>>, replaced |-> FALSE]

Task_exists(t) ==
    /\ callers[t].pc = "start"
    /\ callers' = [callers EXCEPT ![t].pc = "checked",
                                  ![t].found = exists(store_keys, callers[t].key),
                                  ![t].seen = store_keys]
    /\ UNCHANGED store_keys

Task_set(t) ==
    LET c == callers[t]
        r == set_if_not_exists(_mode, store_keys, c.key, c.value, c.found)
    IN  /\ c.pc = "checked"
        /\ store_keys' = r.keys
        /\ callers' = [callers EXCEPT
              ![t].pc = "done",
              ![t].replaced = /\ exists(store_keys, c.key)
                              /\ r.keys # store_keys]

TaskInit ==
    /\ ArrayIdle
    /\ _is_open = TRUE
    /\ _mode = from_literal("a").mode
    /\ store_keys \in Contents
    /\ s_last = NoStoreOp
    /\ phase = "open"
    /\ supports_deletes = TRUE
    /\ supports_listing = TRUE
    /\ writers = <<>>
    /\ locks = {}
    /\ synchronized = FALSE
    /\ array_lock = NoLock
    /\ shapes = <<>>
    /\ callers \in [Tasks -> {NewTask(k, v) : k \in TaskKeys, v \in Blobs}]

TaskNext ==
    \/ (\E t \in Tasks : Task_exists(t))
          /\ UNCHANGED <<array_vars, hist, _is_open, _mode, s_last, phase,
                         supports_deletes, supports_listing,
                         writers, locks, synchronized, array_lock, shapes>>
    \/ (\E t \in Tasks : Task_set(t))
          /\ UNCHANGED <<array_vars, hist, _is_open, _mode, s_last, phase,
                         supports_deletes, supports_listing,
                         writers, locks, synchronized, array_lock, shapes>>

TaskSpec == TaskInit /\ [][TaskNext]_vars

----------------------------------------------------------------------------
(* Two tasks that write to one array, through an Array or through a          *)
(* SynchronizedArray.  __setitem__ visits its chunks in order; for each     *)
(* chunk _chunk_setitem reads the store once (the fetch) and writes it once *)
(* (the store), and another task may run between the two.                   *)

Writers == {1, 2}
NumChunks == 3  \* the number of chunks of the array the tasks write to
WriterShape == <<NumChunks * MaxChunk>>
WriterChunks == <<MaxChunk>>
WriterItems ==
    {<<p>> : p \in {q \in (0..WriterShape[1]) \X (0..WriterShape[1]) : q[1] < q[2]}}

(* SynchronizedArray._chunk_setitem that enters without the chunk lock: the  *)
(* fault the claim about writes to one chunk tells from the code.           *)
with_lock_chunk_Shared(sync, held, cidx) == TRUE

(* Whether _chunk_setitem may start on chunk cidx: always for an Array; for *)
(* a SynchronizedArray when the lock of the chunk is free, which the task   *)
(* then holds until _chunk_setitem has stored the chunk.                    *)
with_lock_chunk(sync, held, cidx) == sync => ckey(cidx) \notin held

(* A store that keeps nothing but the chunk it is given: the fault the       *)
(* claims about the other chunks tell from the code.                        *)
store_chunk_Alone(data, cidx, cdata) == (ckey(cidx) :> cdata)

(* self._store.data[ckey] = cdata *)
store_chunk(data, cidx, cdata) == Put(data, ckey(cidx), cdata)

(* A task before its call of __setitem__(item, value).  seen is history:    *)
(* the store content its last fetch found.                                  *)
NewWriter(item, value) ==
    [pc |-> "next", item |-> item, value |-> value,
     cidxs |-> product(get_chunk_range(
                  normalize_array_selection(item, WriterShape), WriterChunks)),
     i |-> 1, cdata |-> compress(NoValue), seen |-> <<>>]

(* Everything of _chunk_setitem up to the compressed chunk. *)
Writer_fetch(w) ==
    LET t == writers[w]
        cidx == t.cidxs[t.i]
        r == _chunk_setitem(store_data, cidx,
                 chunk_selection(normalize_array_selection(t.item, _shape), cidx),
                 t.value, Zeros(Prod(_chunks)))
    IN  /\ t.pc = "next"
        /\ with_lock_chunk(synchronized, locks, cidx)
        /\ r.err = "ok"
        /\ writers' = [writers EXCEPT ![w].pc = "fetched",
                                      ![w].cdata = r.data[ckey(cidx)],
                                      ![w].seen = store_data]
        /\ locks' = IF synchronized THEN locks \cup {ckey(cidx)} ELSE locks
        /\ UNCHANGED store_data

(* The store of the chunk, the end of _chunk_setitem, and the step of the   *)
(* loop of __setitem__ to the next chunk.                                   *)
Writer_store(w) ==
    LET t == writers[w]
        cidx == t.cidxs[t.i]
    IN  /\ t.pc = "fetched"
        /\ store_data' = store_chunk(store_data, cidx, t.cdata)
        /\ locks' = locks \ {ckey(cidx)}
        /\ writers' = [writers EXCEPT
              ![w].pc = IF t.i = Len(t.cidxs) THEN "done" ELSE "next",
              ![w].i = t.i + 1]

(* The store is empty or holds every chunk, written with zeros. *)
WriterStores ==
    {<<>>, [k \in {ckey(<<c>>) : c \in 0..(NumChunks - 1)} |->
               compress(fill(np_empty(WriterChunks, Zeros(MaxChunk)), 0))]}

WriterInit ==
    /\ meta_shape = WriterShape
    /\ _shape = WriterShape
    /\ _chunks = WriterChunks
    /\ _fill_value = 0
    /\ store_data \in WriterStores
    /\ last = NoOp
    /\ hist = <<store_data>>
    /\ StoreIdle
    /\ synchronized \in BOOLEAN
    /\ locks = {}
    /\ callers = <<>>
    /\ array_lock = NoLock
    /\ shapes = <<>>
    /\ \E items \in [Writers -> WriterItems] :
          writers = [w \in Writers |-> NewWriter(items[w], Scalar(w))]

WriterNext ==
    \/ (\E w \in Writers : Writer_fetch(w))
          /\ UNCHANGED <<meta_shape, _shape, _chunks, _fill_value, last, hist,
                         store_vars, synchronized, callers, array_lock, shapes>>
    \/ (\E w \in Writers : Writer_store(w))
          /\ UNCHANGED <<meta_shape, _shape, _chunks, _fill_value, last, hist,
                         store_vars, synchronized, callers, array_lock, shapes>>

WriterSpec == WriterInit /\ [][WriterNext]_vars

----------------------------------------------------------------------------
(* The reads and writes of a one-dimensional array with value arrays of any  *)
(* length: __setitem__ does not compare the shape of the value with the     *)
(* selection.                                                               *)

AnyValues == UNION {ArraysOf(<<n>>) : n \in 1..MaxLen} \cup {Scalar(v) : v \in Values}

AnyValueInit ==
    /\ meta_shape \in ShapesOfDim(1)
    /\ _shape = meta_shape
    /\ _chunks \in ChunkShapes(1)
    /\ _fill_value = 0
    /\ store_data = <<>>
    /\ last = NoOp
    /\ hist = <<>>
    /\ StoreIdle
    /\ ConcIdle

AnyValueNext ==
    \/ /\ Unrecorded
       /\ \E item \in Selections(_shape) :
             Array_getitem(item, Zeros(Prod(SelShape(item))))
       /\ UNCHANGED <<hist, store_vars, conc_vars>>
    \/ /\ Unrecorded
       /\ \E item \in Selections(_shape), value \in AnyValues :
             Array_setitem(item, value, Zeros(Prod(_chunks)))
       /\ UNCHANGED <<hist, store_vars, conc_vars>>

AnyValueSpec == AnyValueInit /\ [][AnyValueNext]_vars

----------------------------------------------------------------------------
(* A write whose store fails.  The store raises when _chunk_setitem of the   *)
(* k-th visited chunk reaches it (self._store.data[ckey], read or written), *)
(* and the content of a store that raised is what it was.                   *)

(* The loop of __setitem__ that goes on with the next chunk after the store *)
(* has failed: the fault the claim about a failing store tells from the     *)
(* code.                                                                    *)
RECURSIVE setitem_loop_fails_GoesOn(_, _, _, _, _, _, _)
setitem_loop_fails_GoesOn(selection, cidxs, i, value, mem, k, acc) ==
    IF i > Len(cidxs) THEN acc
    ELSE IF i = k
    THEN setitem_loop_fails_GoesOn(selection, cidxs, i + 1, value, mem, k,
             [data |-> acc.data, err |-> "IOError"])
    ELSE setitem_loop_fails_GoesOn(selection, cidxs, i + 1, value, mem, k,
             [data |-> _chunk_setitem(acc.data, cidxs[i],
                           chunk_selection(selection, cidxs[i]),
                           IF isscalar(value) THEN value
                           ELSE getslice(value, out_selection(selection, cidxs[i])),
                           mem).data,
              err |-> acc.err])

(* The loop of __setitem__ over the visited chunks, with a store that fails *)
(* at the k-th of them: the exception leaves the loop.                      *)
RECURSIVE setitem_loop_fails(_, _, _, _, _, _, _)
setitem_loop_fails(selection, cidxs, i, value, mem, k, acc) ==
    IF i > Len(cidxs) \/ acc.err # "ok" THEN acc
    ELSE IF i = k THEN [data |-> acc.data, err |-> "IOError"]
    ELSE setitem_loop_fails(selection, cidxs, i + 1, value, mem, k,
             _chunk_setitem(acc.data, cidxs[i], chunk_selection(selection, cidxs[i]),
                 IF isscalar(value) THEN value
                 ELSE getslice(value, out_selection(selection, cidxs[i])),
                 mem))

(* Array.__setitem__(key, value) with a store that fails at the k-th chunk. *)
Array_setitem_fails(item, value, mem, k) ==
    LET selection == normalize_array_selection(item, _shape)
        cidxs == product(get_chunk_range(selection, _chunks))
        r == setitem_loop_fails(selection, cidxs, 1, value, mem, k,
                                [data |-> store_data, err |-> "ok"])
    IN  /\ k \in 1..Len(cidxs)
        /\ store_data' = r.data
        /\ last' = [op |-> "setitem", item |-> item, value |-> value,
                    axis |-> 0, err |-> r.err]
        /\ hist' = <<[k |-> k, mem |-> mem, before |-> store_data]>>
        /\ UNCHANGED <<meta_shape, _shape, _chunks, _fill_value>>

FailNext ==
    \/ /\ Unrecorded
       /\ \E item \in Selections(_shape) :
             \E value \in ValuesFor(item), mem \in ChunkMemory(_shape, item) :
                Array_setitem(item, value, mem) /\ last' = NoOp
       /\ UNCHANGED <<hist, store_vars, conc_vars>>
    \/ /\ Unrecorded
       /\ \E item \in Selections(_shape), k \in 1..(MaxLen + 1) :
             \E value \in ValuesFor(item), mem \in ChunkMemory(_shape, item) :
                Array_setitem_fails(item, value, mem, k)
       /\ UNCHANGED <<store_vars, conc_vars>>

FailSpec == ArrayInit /\ [][FailNext]_vars

----------------------------------------------------------------------------
(* Tasks that append to one array through SynchronizedArray objects over    *)
(* one store and one synchronizer.  Each object caches the shape in _shape  *)
(* (array.py:75); the array lock of the synchronizer may be reentrant or    *)
(* not.  A task stops where it has to wait for the lock.                    *)

AppendTasks == {1, 2}
AppendShapes == {<<1>>, <<2>>}
(* The block task t appends: up to MaxChunk elements, each of value t. *)
AppendData(t) ==
    {[shape |-> <<n>>, flat |-> [k \in 1..n |-> t]] : n \in 1..MaxChunk}

(* self._synchronizer.lock_array(): whether task t gets the lock now, and   *)
(* the lock after the with block is entered and after it is left.           *)
lock_array_free(lock, t) ==
    lock.holder = 0 \/ (lock.reentrant /\ lock.holder = t)
lock_array_enter(lock, t) == [lock EXCEPT !.holder = t, !.count = @ + 1]
lock_array_exit(lock) ==
    IF lock.count = 1 THEN [lock EXCEPT !.holder = 0, !.count = 0]
    ELSE [lock EXCEPT !.count = @ - 1]

NewAppend(obj, data) ==
    [pc |-> "start", obj |-> obj, data |-> data, axis |-> 0,
     old_shape |-> <<>>, new_shape |-> <<>>, err |-> "ok"]

(* SynchronizedArray.append: with self._synchronizer.lock_array() *)
Append_enter(t) ==
    /\ writers[t].pc = "start"
    /\ lock_array_free(array_lock, t)
    /\ array_lock' = lock_array_enter(array_lock, t)
    /\ writers' = [writers EXCEPT ![t].pc = "check"]
    /\ UNCHANGED <<meta_shape, store_data, shapes>>

(* Array.append up to the new shape, from the shape its object has cached. *)
Append_check(t) ==
    LET w == writers[t]
        shape == shapes[w.obj]
    IN  /\ w.pc = "check"
        /\ IF shape_preserved(shape, w.axis) # shape_preserved(w.data.shape, w.axis)
           THEN /\ writers' = [writers EXCEPT ![t].pc = "done",
                                              ![t].err = "ValueError"]
                /\ array_lock' = lock_array_exit(array_lock)
           ELSE /\ writers' = [writers EXCEPT
                      ![t].pc = "resize",
                      ![t].old_shape = shape,
                      ![t].new_shape = [d \in 1..Len(shape) |->
                          IF d - 1 # w.axis THEN shape[d]
                          ELSE shape[d] + w.data.shape[d]]]
                /\ UNCHANGED array_lock
        /\ UNCHANGED <<meta_shape, store_data, shapes>>

(* self.resize(new_shape) is SynchronizedArray.resize: with                 *)
(* self._synchronizer.lock_array()                                          *)
Append_resize_enter(t) ==
    /\ writers[t].pc = "resize"
    /\ lock_array_free(array_lock, t)
    /\ array_lock' = lock_array_enter(array_lock, t)
    /\ writers' = [writers EXCEPT ![t].pc = "resizing"]
    /\ UNCHANGED <<meta_shape, store_data, shapes>>

(* Array.resize, and the end of the with block of SynchronizedArray.resize. *)
Append_resize(t) ==
    LET w == writers[t]
        r == resize(w.new_shape)
    IN  /\ w.pc = "resizing"
        /\ meta_shape' = r.meta
        /\ shapes' = [shapes EXCEPT ![w.obj] = r.shape]
        /\ array_lock' = lock_array_exit(array_lock)
        /\ writers' = [writers EXCEPT ![t].pc = "write"]
        /\ UNCHANGED store_data

(* self[append_selection] = data, and the end of the with block of          *)
(* SynchronizedArray.append.                                                *)
Append_write(t) ==
    /\ writers[t].pc = "write"
    /\ LET w == writers[t]
           append_selection == [d \in 1..Len(w.old_shape) |->
                                   IF d - 1 # w.axis THEN <<>>
                                   ELSE <<w.old_shape[d], w.new_shape[d]>>]
           r == __setitem__(shapes[w.obj], store_data, append_selection,
                            w.data, Zeros(Prod(_chunks)))
       IN  /\ store_data' = r.data
           /\ array_lock' = lock_array_exit(array_lock)
           /\ writers' = [writers EXCEPT ![t].pc = "done", ![t].err = r.err]
    /\ UNCHANGED <<meta_shape, shapes>>

(* One task or two, through one object or through one object each; hist    *)
(* keeps the shape the array had at the start.                              *)
AppendInit ==
    /\ meta_shape \in AppendShapes
    /\ _shape = meta_shape
    /\ _chunks = <<MaxChunk>>
    /\ _fill_value = 0
    /\ store_data = <<>>
    /\ last = NoOp
    /\ hist = <<meta_shape>>
    /\ StoreIdle
    /\ locks = {}
    /\ synchronized = TRUE
    /\ callers = <<>>
    /\ \E b \in BOOLEAN : array_lock = [NoLock EXCEPT !.reentrant = b]
    /\ shapes = [o \in AppendTasks |-> meta_shape]
    /\ \E T \in {{1}, AppendTasks}, own \in BOOLEAN :
          writers \in {w \in [T -> UNION {{NewAppend(o, a) : o \in AppendTasks,
                                              a \in AppendData(t)} : t \in T}] :
                          \A t \in T : /\ w[t].data \in AppendData(t)
                                       /\ w[t].obj = IF own THEN t ELSE 1}

AppendOther ==
    <<_shape, _chunks, _fill_value, last, hist, store_vars,
      locks, synchronized, callers>>

(* The next step of the append of task t. *)
Append_step(t) ==
    /\ t \in DOMAIN writers
    /\ \/ Append_enter(t)
       \/ Append_check(t)
       \/ Append_resize_enter(t)
       \/ Append_resize(t)
       \/ Append_write(t)
    /\ UNCHANGED AppendOther

AppendNext ==
    \/ (\E t \in DOMAIN writers : Append_enter(t)) /\ UNCHANGED AppendOther
    \/ (\E t \in DOMAIN writers : Append_check(t)) /\ UNCHANGED AppendOther
    \/ (\E t \in DOMAIN writers : Append_resize_enter(t)) /\ UNCHANGED AppendOther
    \/ (\E t \in DOMAIN writers : Append_resize(t)) /\ UNCHANGED AppendOther
    \/ (\E t \in DOMAIN writers : Append_write(t)) /\ UNCHANGED AppendOther

AppendSpec == AppendInit /\ [][AppendNext]_vars

(* A thread that can take its next step is scheduled in the end. *)
AppendFairSpec ==
    /\ AppendInit
    /\ [][AppendNext]_vars
    /\ \A t \in AppendTasks : WF_vars(Append_step(t))

----------------------------------------------------------------------------
(* Tasks that call _ensure_open on one closed store and then set a key.  A  *)
(* task gives up control where _open awaits the backend: inside clear in    *)
(* mode w, inside empty in mode w-.  hist lists what has happened: a clear,  *)
(* the return of a task's _ensure_open, the set of a task.                  *)

OpenModes == {"w", "w-", "a"}

NewOpener(key, value) ==
    [pc |-> "start", key |-> key, value |-> value, found |-> FALSE,
     err |-> "ok"]
Event(ev, t) == [ev |-> ev, task |-> t]

(* _ensure_open and _open up to the first await: the two looks at the flag. *)
Open_check(t) ==
    /\ callers[t].pc = "start"
    /\ IF _is_open
       THEN /\ callers' = [callers EXCEPT ![t].pc = "returned"]
            /\ hist' = Append(hist, Event("returned", t))
            /\ UNCHANGED _is_open
       ELSE IF _mode.str \in {"w", "w-"}
       THEN /\ callers' = [callers EXCEPT ![t].pc = "awaiting"]
            /\ UNCHANGED <<hist, _is_open>>
       ELSE /\ _is_open' = TRUE
            /\ callers' = [callers EXCEPT ![t].pc = "returned"]
            /\ hist' = Append(hist, Event("returned", t))
    /\ UNCHANGED store_keys

(* The backend does what _open awaits: clear in mode w, empty in mode w-. *)
Open_await(t) ==
    /\ callers[t].pc = "awaiting"
    /\ IF _mode.str = "w"
       THEN /\ store_keys' = clear(store_keys)
            /\ hist' = Append(hist, Event("clear", t))
            /\ callers' = [callers EXCEPT ![t].pc = "answered"]
       ELSE /\ callers' = [callers EXCEPT ![t].pc = "answered",
                                          ![t].found = ~empty(store_keys)]
            /\ UNCHANGED <<store_keys, hist>>
    /\ UNCHANGED _is_open

(* _open after the await, and the return of _ensure_open. *)
Open_finish(t) ==
    /\ callers[t].pc = "answered"
    /\ IF _mode.str = "w-" /\ callers[t].found
       THEN /\ callers' = [callers EXCEPT ![t].pc = "failed",
                                          ![t].err = "FileExistsError"]
            /\ UNCHANGED <<_is_open, hist>>
       ELSE /\ _is_open' = TRUE
            /\ callers' = [callers EXCEPT ![t].pc = "returned"]
            /\ hist' = Append(hist, Event("returned", t))
    /\ UNCHANGED store_keys

(* The task sets its key once its _ensure_open has returned. *)
Open_set(t) ==
    LET c == callers[t]
        r == set(_mode, store_keys, c.key, c.value)
    IN  /\ c.pc = "returned"
        /\ store_keys' = r.keys
        /\ callers' = [callers EXCEPT ![t].pc = "done", ![t].err = r.err]
        /\ hist' = Append(hist, Event("set", t))
        /\ UNCHANGED _is_open

OpenInit ==
    /\ ArrayIdle
    /\ _is_open = FALSE
    /\ \E m \in OpenModes : _mode = from_literal(m).mode
    /\ store_keys \in Contents
    /\ s_last = NoStoreOp
    /\ phase = "new"
    /\ supports_deletes = TRUE
    /\ supports_listing = TRUE
    /\ writers = <<>>
    /\ locks = {}
    /\ synchronized = FALSE
    /\ array_lock = NoLock
    /\ shapes = <<>>
    /\ callers \in [Tasks -> {NewOpener(k, v) : k \in TaskKeys, v \in Blobs}]

OpenOther ==
    <<array_vars, _mode, s_last, phase, supports_deletes, supports_listing,
      writers, locks, synchronized, array_lock, shapes>>

OpenNext ==
    \/ (\E t \in Tasks : Open_check(t)) /\ UNCHANGED OpenOther
    \/ (\E t \in Tasks : Open_await(t)) /\ UNCHANGED OpenOther
    \/ (\E t \in Tasks : Open_finish(t)) /\ UNCHANGED OpenOther
    \/ (\E t \in Tasks : Open_set(t)) /\ UNCHANGED OpenOther

OpenSpec == OpenInit /\ [][OpenNext]_vars

----------------------------------------------------------------------------
(* What the claims about the chunk engine speak about. *)

Indices(shape) ==
    {g \in [1..Len(shape) -> 0..(MaxLen - 1)] : \A d \in 1..Len(shape) : g[d] < shape[d]}
ChunkOf(g) == [d \in 1..Len(g) |-> g[d] \div _chunks[d]]
LocalOf(g) == [d \in 1..Len(g) |-> g[d] % _chunks[d]]
(* The value the store content data holds for element g, whose chunk is     *)
(* present.                                                                 *)
StoredAt(data, g) ==
    decompress(data[ckey(ChunkOf(g))], _chunks).flat[1 + COffset(_chunks, LocalOf(g))]
(* Reading the single element g into a buffer that held m: [out, err]. *)
ReadElem(shape, data, g, m) ==
    __getitem__(shape, data, [d \in 1..Len(g) |-> <<g[d], g[d] + 1>>], <<m>>)
(* Element g reads the same under (shape0, data0) and under (shape1, data1), *)
(* whatever the buffers held.                                                *)
ReadsSame(g, shape0, data0, shape1, data1) ==
    \A m0, m1 \in Values : ReadElem(shape0, data0, g, m0) = ReadElem(shape1, data1, g, m1)
(* Element g reads as r under (shape, data), whatever the buffer held. *)
ReadsAs(r, shape, data, g) == \A m \in Values : ReadElem(shape, data, g, m) = r
(* The normalized selection of an item, the chunks an operation on it        *)
(* visits and their keys.                                                    *)
SelOf(item, shape) == normalize_array_selection(item, shape)
VisitedOf(item, shape) == product(get_chunk_range(SelOf(item, shape), _chunks))
VisitedKeysOf(item, shape) ==
    {ckey(VisitedOf(item, shape)[i]) : i \in 1..Len(VisitedOf(item, shape))}
VisitsPartly(item, shape) ==
    \E i \in 1..Len(VisitedOf(item, shape)) :
        ~is_total_slice(chunk_selection(SelOf(item, shape), VisitedOf(item, shape)[i]),
                        _chunks)
(* The keys of the chunks that hold an element of the selection. *)
TouchedKeysOf(item, shape) ==
    {ckey(ChunkOf(g)) : g \in {h \in Indices(shape) : InSel(h, SelOf(item, shape))}}
(* Key k is present in both store contents with the same blob, or in none. *)
SameBlob(k, data0, data1) ==
    /\ (k \in DOMAIN data0) = (k \in DOMAIN data1)
    /\ k \in DOMAIN data0 => data1[k] = data0[k]
(* The element of the array out, read for the selection sel, that holds     *)
(* array element g.                                                         *)
OutAt(out, sel, g) ==
    out.flat[1 + COffset(out.shape, [d \in 1..Len(g) |-> g[d] - sel[d][1]])]

(* C1: a write of an array V to a selection S succeeds, and a read of S right *)
(* after it returns exactly V, whatever the store held and whatever the      *)
(* output buffer held.                                                       *)
C1_RoundTrip ==
    (last.op = "setitem" /\ ~isscalar(last.value)) =>
        /\ last.err = "ok"
        /\ \A mem \in Memory(Prod(SelShape(SelOf(last.item, _shape)))) :
              __getitem__(_shape, store_data, last.item, mem)
                  = [out |-> last.value, err |-> "ok"]

(* A write of both values that spans several chunks and covers one partly. *)
C1_Witness ==
    /\ last.op = "setitem" /\ ~isscalar(last.value) /\ last.err = "ok"
    /\ Len(VisitedOf(last.item, _shape)) >= 2 /\ VisitsPartly(last.item, _shape)
    /\ {last.value.flat[k] : k \in 1..Len(last.value.flat)} = Values

(* C2 as claimed: a read never fails; it delivers fill_value for every        *)
(* selected element whose chunk key is absent and the stored value for every *)
(* selected element of a present chunk.                                      *)
C2_Original ==
    last.op = "getitem" =>
        /\ last.err = "ok"
        /\ \A g \in Indices(_shape) : InSel(g, SelOf(last.item, _shape)) =>
              IF ckey(ChunkOf(g)) \in DOMAIN store_data
              THEN OutAt(last.value, SelOf(last.item, _shape), g) = StoredAt(store_data, g)
              ELSE OutAt(last.value, SelOf(last.item, _shape), g) = _fill_value

(* C2 amended: a read never fails; it delivers the stored value for every    *)
(* selected element of a present chunk and, when the array has a fill value, *)
(* the fill value for every selected element whose chunk key is absent.      *)
C2_FillOrStored ==
    last.op = "getitem" =>
        /\ last.err = "ok"
        /\ last.value.shape = SelShape(SelOf(last.item, _shape))
        /\ \A g \in Indices(_shape) : InSel(g, SelOf(last.item, _shape)) =>
              IF ckey(ChunkOf(g)) \in DOMAIN store_data
              THEN OutAt(last.value, SelOf(last.item, _shape), g) = StoredAt(store_data, g)
              ELSE _fill_value # None =>
                      OutAt(last.value, SelOf(last.item, _shape), g) = _fill_value

(* A read that takes elements of an absent chunk and of a present chunk     *)
(* whose stored value is not the fill value.                                *)
C2_Witness ==
    /\ last.op = "getitem" /\ last.err = "ok" /\ _fill_value # None
    /\ \E g, h \in Indices(_shape) :
          /\ InSel(g, SelOf(last.item, _shape)) /\ InSel(h, SelOf(last.item, _shape))
          /\ ckey(ChunkOf(g)) \notin DOMAIN store_data
          /\ ckey(ChunkOf(h)) \in DOMAIN store_data
          /\ StoredAt(store_data, h) # _fill_value

AxisOf(axis, shape) == {d \in 1..Len(shape) : d - 1 = axis \/ d - 1 = axis + Len(shape)}
(* The region from extent lo to extent hi along axis a, whole on the others. *)
Region(n, a, lo, hi) == [d \in 1..n |-> IF d = a THEN <<lo, hi>> ELSE <<>>]

(* C5 as claimed, for an array with a fill value: an append that returns     *)
(* without error grows the extent along the given axis by data's extent,     *)
(* keeps the other extents, keeps every element that was readable, and the   *)
(* added region reads back as data.                                          *)
C5_Original ==
    [][(last'.op = "append" /\ last'.err = "ok" /\ _fill_value # None) =>
        \E a \in AxisOf(last'.axis, _shape) :
            /\ _shape' = [_shape EXCEPT ![a] = _shape[a] + last'.value.shape[a]]
            /\ meta_shape' = _shape'
            /\ \A g \in Indices(_shape) :
                  ReadsSame(g, _shape, store_data, _shape', store_data')
            /\ \A mem \in Memory(Prod(last'.value.shape)) :
                  __getitem__(_shape', store_data',
                              Region(Len(_shape), a, _shape[a], _shape'[a]), mem)
                      = [out |-> last'.value, err |-> "ok"]]_vars

(* The same for an axis argument that is an axis index of the array. *)
C5_AxisInRange ==
    [][(last'.op = "append" /\ last'.err = "ok" /\ _fill_value # None
           /\ last'.axis \in 0..(Len(_shape) - 1)) =>
        LET a == last'.axis + 1
        IN  /\ _shape' = [_shape EXCEPT ![a] = _shape[a] + last'.value.shape[a]]
            /\ meta_shape' = _shape'
            /\ \A g \in Indices(_shape) :
                  ReadsSame(g, _shape, store_data, _shape', store_data')
            /\ \A mem \in Memory(Prod(last'.value.shape)) :
                  __getitem__(_shape', store_data',
                              Region(Len(_shape), a, _shape[a], _shape'[a]), mem)
                      = [out |-> last'.value, err |-> "ok"]]_vars

(* The extents of data and of the array differ on an axis other than axis. *)
Mismatch(dshape, shape, axis) ==
    \/ Len(dshape) # Len(shape)
    \/ \E d \in 1..Len(shape) : d - 1 # axis /\ dshape[d] # shape[d]

(* C6: an append of data whose extent differs from the array's on an axis    *)
(* other than the append axis fails with ValueError, and the shape metadata, *)
(* the cached shape and the store content are as before.                     *)
C6_AppendMismatch ==
    [][(last'.op = "append" /\ Mismatch(last'.value.shape, _shape, last'.axis)) =>
        /\ last'.err = "ValueError"
        /\ UNCHANGED <<meta_shape, _shape, store_data>>]_vars

(* A refused append on a two-dimensional array whose store holds chunks. *)
C6_Witness ==
    /\ last.op = "append" /\ last.err = "ValueError"
    /\ Len(_shape) = 2 /\ last.axis = 0
    /\ Mismatch(last.value.shape, _shape, last.axis)
    /\ DOMAIN store_data # {}

----------------------------------------------------------------------------
(* The scenario trace. *)

(* The operations of the trace, in order, and what its reads return. *)
TraceOps ==
    << [op |-> "getitem", item |-> Whole, value |-> NoValue],
       [op |-> "setitem", item |-> << <<5, 10>> >>, value |-> Arange5],
       [op |-> "getitem", item |-> Whole, value |-> NoValue],
       [op |-> "setitem", item |-> << <<3, 7>> >>, value |-> Scalar(99)],
       [op |-> "getitem", item |-> Whole, value |-> NoValue] >>
TraceReads ==
    << <<0, 0, 0, 0, 0, 0, 0, 0, 0, 0>>,
       <<>>,
       <<0, 0, 0, 0, 0, 0, 1, 2, 3, 4>>,
       <<>>,
       <<0, 0, 0, 99, 99, 99, 99, 2, 3, 4>> >>
(* The first n operations of the run are the first n of the trace. *)
FollowsTrace(n) ==
    /\ n <= Len(hist) /\ n <= Len(TraceOps)
    /\ \A i \in 1..n :
          /\ hist[i].op = TraceOps[i].op
          /\ hist[i].item = TraceOps[i].item
          /\ hist[i].op = "setitem" => hist[i].value = TraceOps[i].value

(* C4: in a run that follows the trace, every operation succeeds and each    *)
(* read of [0:10] returns what the trace says, whatever the output buffer   *)
(* held.                                                                    *)
C4_ScenarioTrace ==
    \A n \in 1..Len(TraceOps) :
        FollowsTrace(n) =>
            /\ hist[n].err = "ok"
            /\ hist[n].op = "getitem" =>
                  hist[n].value = [shape |-> <<10>>, flat |-> TraceReads[n]]

(* The whole trace has run, and the store holds both chunks. *)
C4_Witness ==
    /\ FollowsTrace(Len(TraceOps))
    /\ hist[Len(TraceOps)].value.flat = TraceReads[Len(TraceOps)]
    /\ DOMAIN store_data = {"0", "1"}

----------------------------------------------------------------------------
(* The claims about AccessMode and the Store lifecycle. *)

(* The documented flags of each literal: readonly, overwrite, create, update. *)
Flags ==
    ("r"  :> <<TRUE,  FALSE, FALSE, FALSE>>) @@
    ("r+" :> <<FALSE, FALSE, FALSE, TRUE>>) @@
    ("w"  :> <<FALSE, TRUE,  TRUE,  FALSE>>) @@
    ("w-" :> <<FALSE, FALSE, TRUE,  FALSE>>) @@
    ("a"  :> <<FALSE, FALSE, TRUE,  TRUE>>)

(* C7: from_literal of one of the five literals returns the literal and its  *)
(* documented flags; of any other token it fails with ValueError and no     *)
(* AccessMode comes to exist.                                               *)
C7_FromLiteral ==
    s_last.op = "__init__" =>
        IF s_last.arg \in DOMAIN Flags
        THEN /\ s_last.err = "ok"
             /\ _mode.str = s_last.arg
             /\ <<_mode.readonly, _mode.overwrite, _mode.create, _mode.update>>
                   = Flags[s_last.arg]
        ELSE /\ s_last.err = "ValueError"
             /\ _mode = NoMode

(* A store constructed in mode w-. *)
C7_Witness ==
    /\ s_last.op = "__init__" /\ s_last.arg = "w-" /\ s_last.err = "ok"
    /\ _mode.create /\ ~_mode.overwrite

(* C8: _open on an open store fails with ValueError; the flag stays true,    *)
(* the mode and the content are as before.                                   *)
C8_ReopenFails ==
    (s_last.op = "_open" /\ s_last.was_open) =>
        /\ s_last.err = "ValueError"
        /\ _is_open
        /\ _mode = s_last.mode
        /\ store_keys = s_last.before

(* A refused second open of a store in mode w that holds a key. *)
C8_Witness ==
    /\ s_last.op = "_open" /\ s_last.was_open /\ s_last.err = "ValueError"
    /\ _mode.str = "w"
    /\ DOMAIN store_keys # {}

(* C9: _open on a closed store in mode w succeeds and leaves the store       *)
(* without keys and open; a successful _open in mode r, r+ or a leaves the   *)
(* content as it was.                                                        *)
C9_OpenClears ==
    (s_last.op = "_open" /\ ~s_last.was_open) =>
        /\ _mode.str = "w" =>
              s_last.err = "ok" /\ DOMAIN store_keys = {} /\ _is_open
        /\ (_mode.str \in {"r", "r+", "a"} /\ s_last.err = "ok") =>
              store_keys = s_last.before /\ _is_open

(* An open in mode w of a store that held keys. *)
C9_Witness ==
    /\ s_last.op = "_open" /\ ~s_last.was_open /\ s_last.err = "ok"
    /\ _mode.str = "w"
    /\ DOMAIN s_last.before # {}
    /\ DOMAIN store_keys = {}

(* C10: _open on a closed store in mode w- fails with FileExistsError when   *)
(* the store holds a key, leaving the content as it was and the flag false; *)
(* on a store without keys it succeeds and sets the flag.                   *)
C10_ExclusiveCreate ==
    (s_last.op = "_open" /\ ~s_last.was_open /\ _mode.str = "w-") =>
        IF DOMAIN s_last.before # {}
        THEN s_last.err = "FileExistsError" /\ store_keys = s_last.before /\ ~_is_open
        ELSE s_last.err = "ok" /\ store_keys = s_last.before /\ _is_open

(* A refused open in mode w- of a store that holds both keys. *)
C10_Witness ==
    /\ s_last.op = "_open" /\ ~s_last.was_open /\ _mode.str = "w-"
    /\ s_last.err = "FileExistsError"
    /\ DOMAIN store_keys = Keys

----------------------------------------------------------------------------
(* C11: a store is opened at most once in its life: over any sequence of    *)
(* _open, _ensure_open and close calls no open succeeds after a close, so   *)
(* the store is never open again once it was closed.                        *)
C11_Original == phase # "reopened"

----------------------------------------------------------------------------
(* C13: delete_dir on a store without delete support or without listing     *)
(* support raises NotImplementedError, and on a store with both but in a    *)
(* read-only mode it raises the not-writable ValueError; in each of these   *)
(* cases the content of the store is what it was before the call.           *)
C13_DeleteDirRefused ==
    s_last.op = "delete_dir" =>
        /\ (~supports_deletes \/ ~supports_listing) =>
              /\ s_last.err = "NotImplementedError"
              /\ store_keys = s_last.before
        /\ (supports_deletes /\ supports_listing /\ s_last.mode.readonly) =>
              /\ s_last.err = "ValueError"
              /\ store_keys = s_last.before

(* A read-only store with both capabilities refused a delete_dir whose      *)
(* prefix names keys that are there.                                        *)
C13_Witness ==
    /\ s_last.op = "delete_dir" /\ s_last.arg = "a"
    /\ supports_deletes /\ supports_listing /\ s_last.mode.readonly
    /\ s_last.err = "ValueError"
    /\ "a/b" \in DOMAIN store_keys

----------------------------------------------------------------------------
(* C14: set_if_not_exists is a check followed by a set.  A call that ran     *)
(* alone set its key if and only if the key was absent and otherwise left   *)
(* the content as it was; a call never sets after exists answered that the  *)
(* key is there; and a value that was present is replaced only when another *)
(* task has set that key between the check and the set of the call.         *)
C14_CheckThenSet ==
    \A t \in Tasks :
        callers[t].pc = "done" =>
            LET c == callers[t]
            IN  /\ (\A u \in Tasks \ {t} : callers[u].pc = "start") =>
                      store_keys = IF c.key \in DOMAIN c.seen THEN c.seen
                                   ELSE Put(c.seen, c.key, c.value)
                /\ c.found => ~c.replaced
                /\ c.replaced =>
                      /\ ~c.found
                      /\ \E u \in Tasks \ {t} :
                            /\ callers[u].pc = "done"
                            /\ callers[u].key = c.key
                            /\ ~callers[u].found

(* Two tasks found the key absent, and the set of the second replaced the   *)
(* value that the first had set by another value.                           *)
C14_Witness ==
    \E t \in Tasks, u \in Tasks :
        /\ t # u
        /\ callers[t].pc = "done" /\ callers[u].pc = "done"
        /\ callers[t].key = callers[u].key
        /\ callers[t].replaced
        /\ callers[t].value # callers[u].value
        /\ store_keys[callers[t].key] = callers[t].value

----------------------------------------------------------------------------
(* What the claims about concurrent writes speak about. *)

AllDone == \A w \in Writers : writers[w].pc = "done"
KeysOfWriter(w) == {ckey(writers[w].cidxs[i]) : i \in 1..Len(writers[w].cidxs)}
(* The store content after the write of first and then the write of second, *)
(* one after the other, from the content the tasks started from.            *)
InOrder(first, second) ==
    __setitem__(_shape,
        __setitem__(_shape, hist[1], writers[first].item, writers[first].value,
                    Zeros(Prod(_chunks))).data,
        writers[second].item, writers[second].value, Zeros(Prod(_chunks))).data

(* C12: when two writes through a SynchronizedArray visit disjoint sets of   *)
(* chunks, the store content after both, whatever the interleaving of their *)
(* steps was, is the content either sequential order gives.                 *)
C12_DisjointChunks ==
    (synchronized /\ AllDone /\ KeysOfWriter(1) \cap KeysOfWriter(2) = {}) =>
        /\ store_data = InOrder(1, 2)
        /\ store_data = InOrder(2, 1)

(* Both writes are done, each visited its own chunk, partly, and the store   *)
(* held chunks before.                                                      *)
C12_Witness ==
    /\ synchronized /\ AllDone
    /\ KeysOfWriter(1) \cap KeysOfWriter(2) = {}
    /\ writers[1].item = << <<0, 1>> >>
    /\ writers[2].item = << <<MaxChunk, MaxChunk + 1>> >>
    /\ hist[1] # <<>>
    /\ store_data # hist[1]

(* The elements a one-dimensional write of task w covers. *)
RegionOfWriter(w) ==
    {<<x>> : x \in writers[w].item[1][1]..(writers[w].item[1][2] - 1)}
(* The store content after the write of task w alone, from the content the  *)
(* tasks started from.                                                      *)
Alone(w) ==
    __setitem__(_shape, hist[1], writers[w].item, writers[w].value,
                Zeros(Prod(_chunks))).data

(* C15: two writes through a SynchronizedArray that visit a common chunk and *)
(* cover disjoint elements never lose an update: after both, every element  *)
(* a write covered holds the value of that write, and the store content is  *)
(* what the two writes give one after the other.                            *)
C15_NoLostUpdate ==
    (/\ synchronized /\ AllDone
     /\ KeysOfWriter(1) \cap KeysOfWriter(2) # {}
     /\ RegionOfWriter(1) \cap RegionOfWriter(2) = {}) =>
        /\ \A w \in Writers : \A g \in RegionOfWriter(w) :
              StoredAt(store_data, g) = writers[w].value.flat[1]
        /\ store_data = InOrder(1, 2)

(* Both synchronized writes are done; they covered the first and the second *)
(* element of chunk 0, which was absent before.                             *)
C15_Witness ==
    /\ synchronized /\ AllDone
    /\ writers[1].item = << <<0, 1>> >>
    /\ writers[2].item = << <<1, 2>> >>
    /\ hist[1] = <<>>
    /\ "0" \in DOMAIN store_data

(* C16: an Array gives no such safety.  When two writes to one chunk have    *)
(* both fetched the chunk before either stored it, the store content after  *)
(* both is what the write that stored last gives alone: the update of the   *)
(* other write is lost.                                                     *)
C16_LastStoreWins ==
    (/\ ~synchronized /\ AllDone
     /\ \A w \in Writers : Len(writers[w].cidxs) = 1
     /\ KeysOfWriter(1) = KeysOfWriter(2)
     /\ \A w \in Writers : writers[w].seen = hist[1]) =>
        store_data \in {Alone(1), Alone(2)}

(* Two writes through an Array covered the first and the second element of  *)
(* chunk 0; both are done and the first element still holds what it held    *)
(* before, in a store content that no sequential order gives.               *)
C16_Witness ==
    /\ ~synchronized /\ AllDone
    /\ writers[1].item = << <<0, 1>> >>
    /\ writers[2].item = << <<1, 2>> >>
    /\ StoredAt(store_data, <<0>>) = 0
    /\ StoredAt(store_data, <<1>>) = 2
    /\ store_data \notin {InOrder(1, 2), InOrder(2, 1)}

----------------------------------------------------------------------------
(* What the claim about the geometry of a selection speaks about. *)

(* The chunk coordinates of the grid of an array of the given shape. *)
Grid(shape) ==
    {c \in [1..Len(shape) -> 0..MaxLen] :
        \A d \in 1..Len(shape) : c[d] < CeilDiv(shape[d], _chunks[d])}
(* The extent of chunk c meets the selection in every dimension. *)
Intersects(c, sel) ==
    \A d \in 1..Len(sel) :
        Max(c[d] * _chunks[d], sel[d][1]) < Min((c[d] + 1) * _chunks[d], sel[d][2])
LexLess(a, b) ==
    \E d \in 1..Len(a) : a[d] < b[d] /\ \A e \in 1..(d - 1) : a[e] = b[e]
(* The visited chunks come in row-major order, none twice. *)
RowMajor(cidxs) ==
    \A i \in 1..Len(cidxs), j \in 1..Len(cidxs) : i < j => LexLess(cidxs[i], cidxs[j])
(* chunk_selection and out_selection of chunk c denote one region: equal    *)
(* extents, and the same start in array coordinates.                        *)
SameRegion(sel, c) ==
    /\ SelShape(chunk_selection(sel, c)) = SelShape(out_selection(sel, c))
    /\ \A d \in 1..Len(sel) :
          chunk_selection(sel, c)[d][1] + chunk_offset(c)[d]
              = out_selection(sel, c)[d][1] + sel[d][1]
(* Every element of the output is in the out_selection of exactly one       *)
(* visited chunk.                                                           *)
Partition(sel, cidxs) ==
    \A g \in Indices(SelShape(sel)) :
        Cardinality({i \in 1..Len(cidxs) : InSel(g, out_selection(sel, cidxs[i]))}) = 1
IsAccess == last.op \in {"getitem", "setitem"}
IsEmptySel(sel) == Prod(SelShape(sel)) = 0

----------------------------------------------------------------------------
(* Every blob of the store content holds as many elements as a chunk has,   *)
(* under a key that is a chunk coordinate joined by '.'.                    *)
CompleteChunks(data) ==
    \A k \in DOMAIN data :
        /\ data[k].nbytes = Prod(_chunks)
        /\ Len(data[k].bytes) = Prod(_chunks)
        /\ \E c \in [1..Len(_chunks) -> 0..MaxLen] : k = ckey(c)

(* C18: in every state each stored blob encodes one complete chunk of        *)
(* exactly chunk_shape elements and each key is a chunk coordinate joined   *)
(* by '.'; a step creates a key only if it is a write that visits the chunk *)
(* of that key; and a read creates, rewrites and deletes no key.            *)
C18_Original ==
    [][/\ CompleteChunks(store_data')
       /\ last'.op = "getitem" => store_data' = store_data
       /\ last'.op = "setitem" =>
             (DOMAIN store_data') \ (DOMAIN store_data)
                 \subseteq VisitedKeysOf(last'.item, _shape)]_vars

----------------------------------------------------------------------------
(* C19: for every chunk a read visits that is present in the store, what     *)
(* _chunk_getitem leaves in the output buffer is what the general path      *)
(* leaves there (decompress into a buffer of the chunk's shape, then copy   *)
(* the chunk_selection), whatever the buffer held: where the fast path is   *)
(* taken it is not seen in the result.                                      *)
C19_PathsAgree ==
    last.op = "getitem" =>
        LET sel == SelOf(last.item, _shape)
            cidxs == VisitedOf(last.item, _shape)
        IN  \A i \in 1..Len(cidxs) :
                ckey(cidxs[i]) \in DOMAIN store_data =>
                    \A v \in Values :
                        LET out == fill(np_empty(SelShape(sel),
                                                 Zeros(Prod(SelShape(sel)))), v)
                        IN  _chunk_getitem(store_data, cidxs[i],
                                chunk_selection(sel, cidxs[i]), out,
                                out_selection(sel, cidxs[i]))
                            = general_path(store_data[ckey(cidxs[i])],
                                chunk_selection(sel, cidxs[i]), out,
                                out_selection(sel, cidxs[i]))

(* A read of a whole two-dimensional array took the fast path for the       *)
(* present chunk that is the second row of the output, and delivered a      *)
(* stored 1.                                                                *)
C19_Witness ==
    /\ last.op = "getitem" /\ last.err = "ok"
    /\ _shape = <<2, 2>> /\ _chunks = <<1, 2>>
    /\ SelOf(last.item, _shape) = << <<0, 2>>, <<0, 2>> >>
    /\ "1.0" \in DOMAIN store_data
    /\ last.value.flat[3] = 1

----------------------------------------------------------------------------
(* C20: when the store fails at the k-th chunk that a __setitem__ visits,    *)
(* the call ends with the error of the store; the chunks visited before the *)
(* k-th hold what the whole write would have stored for them, and the k-th  *)
(* chunk, the chunks after it and every other key hold what they held       *)
(* before the call.                                                         *)
C20_AbortAtFailure ==
    hist # <<>> =>
        LET h == hist[1]
            cidxs == VisitedOf(last.item, _shape)
            whole == __setitem__(_shape, h.before, last.item, last.value, h.mem).data
        IN  /\ last.err = "IOError"
            /\ \A i \in 1..Len(cidxs) :
                  IF i < h.k
                  THEN /\ ckey(cidxs[i]) \in DOMAIN store_data
                       /\ store_data[ckey(cidxs[i])] = whole[ckey(cidxs[i])]
                  ELSE SameBlob(ckey(cidxs[i]), h.before, store_data)
            /\ \A key \in (DOMAIN store_data \cup DOMAIN h.before)
                              \ VisitedKeysOf(last.item, _shape) :
                  SameBlob(key, h.before, store_data)

(* The store failed at the second of the chunks of a write: the first chunk  *)
(* holds new data, and the second and the third, present before, differ     *)
(* from what the whole write would have stored.                             *)
C20_Witness ==
    /\ hist # <<>> /\ hist[1].k = 2
    /\ Len(VisitedOf(last.item, _shape)) >= 3
    /\ store_data # hist[1].before
    /\ LET whole == __setitem__(_shape, hist[1].before, last.item, last.value,
                               hist[1].mem).data
           cidxs == VisitedOf(last.item, _shape)
       IN  \A i \in 2..3 :
              /\ ckey(cidxs[i]) \in DOMAIN store_data
              /\ store_data[ckey(cidxs[i])] # whole[ckey(cidxs[i])]

----------------------------------------------------------------------------
(* C21: _ensure_open on an open store does nothing: no error, flag, mode and *)
(* content as before, also in mode w and in mode w-; on a closed store its  *)
(* outcome, flag and content are those of _open; and one more call right    *)
(* after it leaves the flag and the content as the first call left them.    *)
C21_EnsureOpenIdempotent ==
    s_last.op = "_ensure_open" =>
        /\ s_last.was_open =>
              /\ s_last.err = "ok"
              /\ _is_open
              /\ store_keys = s_last.before
        /\ ~s_last.was_open =>
              [err |-> s_last.err, is_open |-> _is_open, keys |-> store_keys]
                  = _open(FALSE, s_last.mode, s_last.before)
        /\ _mode = s_last.mode
        /\ LET again == _ensure_open(_is_open, _mode, store_keys)
           IN  /\ again.is_open = _is_open
               /\ again.keys = store_keys
               /\ again.err = s_last.err

(* _ensure_open returned without error on an open store in mode w that      *)
(* holds a key, and the key is still there.                                 *)
C21_Witness ==
    /\ s_last.op = "_ensure_open" /\ s_last.was_open /\ s_last.err = "ok"
    /\ _mode.str = "w"
    /\ "a" \in DOMAIN store_keys

----------------------------------------------------------------------------
(* The prefix with its trailing separator. *)
AsDir(prefix) == IF endswith(prefix, "/") THEN prefix ELSE prefix \o "/"
DeletedDir == s_last.op = "delete_dir" /\ s_last.err = "ok"

C23_Original ==
    DeletedDir => \A k \in DOMAIN store_keys : ~startswith(k, s_last.arg)

----------------------------------------------------------------------------
(* What the claims about append through a SynchronizedArray speak about. *)
AppendsDone == \A t \in DOMAIN writers : writers[t].pc = "done"
SingleAppend == DOMAIN writers = {1}

(* C24: a task that holds the array lock never asks for it again, and a     *)
(* single append without contention comes to its end and leaves the array   *)
(* lock free, whether the lock is reentrant or not.                         *)
C24_Original ==
    /\ [](\A t \in DOMAIN writers :
            ~(writers[t].pc = "resize" /\ array_lock.holder = t))
    /\ (SingleAppend ~> (AppendsDone /\ array_lock.holder = 0))

----------------------------------------------------------------------------
(* What the claim about concurrent opens speaks about. *)
Clears == {i \in DOMAIN hist : hist[i].ev = "clear"}
Returns == {i \in DOMAIN hist : hist[i].ev = "returned"}

(* C25: with several tasks in _ensure_open on one closed store in mode w,   *)
(* clear runs at most once and never after the _ensure_open of some task    *)
(* has returned, and the key a task has set after its own _ensure_open      *)
(* returned stays in the store.                                             *)
C25_Original ==
    _mode.str = "w" =>
        /\ Cardinality(Clears) <= 1
        /\ \A i \in Returns, j \in Clears : j < i
        /\ \A t \in DOMAIN callers :
              callers[t].pc = "done" => callers[t].key \in DOMAIN store_keys

(* What a reader of the whole array finds in [a, b) once the appends are    *)
(* over, and the extent a task has appended.                                *)
ReadBack(a, b) ==
    __getitem__(meta_shape, store_data, <<<<a, b>>>>, Zeros(b - a))
Extent(t) == writers[t].data.shape[1]

(* C26: two appends along the same axis through one synchronizer, through   *)
(* one object or through one object each, both take effect: the extent of   *)
(* the array grows by both appended extents, and each block reads back     *)
(* from its own region, one after the other in some order.                  *)
C26_Original ==
    (DOMAIN writers = AppendTasks /\ AppendsDone
        /\ \A t \in AppendTasks : writers[t].err = "ok") =>
        /\ meta_shape = <<hist[1][1] + Extent(1) + Extent(2)>>
        /\ \E t \in AppendTasks, u \in AppendTasks :
              /\ t # u
              /\ ReadBack(hist[1][1], hist[1][1] + Extent(t))
                    = [out |-> writers[t].data, err |-> "ok"]
              /\ ReadBack(hist[1][1] + Extent(t),
                          hist[1][1] + Extent(t) + Extent(u))
                    = [out |-> writers[u].data, err |-> "ok"]

====
